---- MODULE Spec2Model ----
(***************************************************************************)
(* Model of tools/fairness/bias_check.py: BiasReport.from_arrays, the      *)
(* group fairness metrics calculator.                                      *)
(*                                                                         *)
(* from_arrays is a pure, synchronous function of its arguments.  The      *)
(* state is one call: the arguments (args), where the call stands (pc),    *)
(* the exception it raised (error) and the report it returned (report).    *)
(*                                                                         *)
(* Floats are modelled as exact fractions <<n, d>> with d > 0, and         *)
(* not-a-number as <<0, 0>>.  IEEE division and subtraction are monotone,  *)
(* so order and range properties carry over; NaN compares false to         *)
(* everything, as in Python and numpy.                                     *)
(***************************************************************************)
EXTENDS Integers, Sequences, FiniteSets

VARIABLES args, pc, error, report

vars == <<args, pc, error, report>>

(***************************************************************************)
(* Bounds of the input space.                                              *)
(***************************************************************************)
MaxRows == 2

NumGroups == 2

\* The missing sensitive value (None / NaN), below every real group value.
NA == 0

Groups == 1..NumGroups

Labels == {0, 1}

Scores == {0, 1}

Thresholds == {1}

\* Optional[T]: <<>> is None, <<v>> is the value v.
None == <<>>

Some(v) == <<v>>

IsNone(o) == o = <<>>

Opt(S) == {None} \cup {Some(v) : v \in S}

SeqsUpTo(S, n) == UNION {[1..k -> S] : k \in 0..n}

(***************************************************************************)
(* Floats.                                                                 *)
(***************************************************************************)
NaN == <<0, 0>>

IsNaN(x) == x[2] = 0

Float(k) == <<k, 1>>

FLt(a, b) == ~IsNaN(a) /\ ~IsNaN(b) /\ a[1] * b[2] < b[1] * a[2]

FLe(a, b) == ~IsNaN(a) /\ ~IsNaN(b) /\ a[1] * b[2] <= b[1] * a[2]

FEq(a, b) == ~IsNaN(a) /\ ~IsNaN(b) /\ a[1] * b[2] = b[1] * a[2]

\* Same float value, NaN taken as one value (what a reader of the report sees).
FSame(a, b) == (IsNaN(a) /\ IsNaN(b)) \/ FEq(a, b)

FSub(a, b) ==
    IF IsNaN(a) \/ IsNaN(b) THEN NaN
    ELSE <<a[1] * b[2] - b[1] * a[2], a[2] * b[2]>>

\* a / b for b # 0.
FDiv(a, b) ==
    IF IsNaN(a) \/ IsNaN(b) THEN NaN
    ELSE IF b[1] > 0 THEN <<a[1] * b[2], a[2] * b[1]>>
    ELSE <<-(a[1] * b[2]), -(a[2] * b[1])>>

\* _safe_div: float(n) / float(d) if float(d) != 0 else nan.
\* NaN != 0 is true, and n / NaN is NaN.
_safe_div(n, d) ==
    IF IsNaN(d) THEN NaN
    ELSE IF d[1] # 0 THEN FDiv(n, d)
    ELSE NaN

\* Python's builtin max(a, b): b replaces a only if b > a.
PyMax(a, b) == IF FLt(a, b) THEN b ELSE a

RECURSIVE NanFold(_, _, _)
\* Fold of the finite entries of vals from index i on into <<max, min>>;
\* both are NaN until a finite entry is seen.
NanFold(vals, i, acc) ==
    IF i > Len(vals) THEN acc
    ELSE NanFold(vals, i + 1,
                 IF IsNaN(vals[i]) THEN acc
                 ELSE IF IsNaN(acc[1]) THEN <<vals[i], vals[i]>>
                 ELSE <<IF FLt(acc[1], vals[i]) THEN vals[i] ELSE acc[1],
                        IF FLt(vals[i], acc[2]) THEN vals[i] ELSE acc[2]>>)

\* np.nanmax: the largest non-NaN entry, NaN if all entries are NaN.
NanMax(vals) == NanFold(vals, 1, <<NaN, NaN>>)[1]

\* np.nanmin: the smallest non-NaN entry, NaN if all entries are NaN.
NanMin(vals) == NanFold(vals, 1, <<NaN, NaN>>)[2]

(***************************************************************************)
(* Validation and the frame.                                               *)
(***************************************************************************)
\* The y_score / threshold test hoisted out of the "y_pred is None" branch.
MissingPredictionUnnested(a) == IsNone(a.y_score) \/ IsNone(a.threshold)

\* Line 132-134: y_pred is None and (y_score is None or threshold is None).
MissingPrediction(a) ==
    IsNone(a.y_pred) /\ (IsNone(a.y_score) \/ IsNone(a.threshold))

\* Line 135 / 137: the prediction column; scores become 0/1 by score >= threshold.
PredColumn(a) ==
    IF IsNone(a.y_pred)
    THEN [i \in 1..Len(a.y_score[1]) |->
            IF a.y_score[1][i] >= a.threshold[1] THEN 1 ELSE 0]
    ELSE a.y_pred[1]

\* Line 140.
LengthMismatch(a) ==
    \/ Len(a.y_true) # Len(PredColumn(a))
    \/ Len(a.y_true) # Len(a.sensitive)

\* Line 143-145: the rows of the frame, minus missing-group rows if dropna_groups.
Frame(a) ==
    LET col == PredColumn(a)
        rows == [i \in 1..Len(a.y_true) |->
                   [y_true |-> a.y_true[i], y_pred |-> col[i],
                    sensitive |-> a.sensitive[i]]]
    IN IF a.dropna_groups
       THEN SelectSeq(rows, LAMBDA r : r.sensitive # NA)
       ELSE rows

(***************************************************************************)
(* Grouping.                                                               *)
(***************************************************************************)
RECURSIVE SortedSeq(_)
\* The values of S in ascending order.
SortedSeq(S) ==
    IF S = {} THEN <<>>
    ELSE LET m == CHOOSE x \in S : \A y \in S : x <= y
         IN <<m>> \o SortedSeq(S \ {m})

RECURSIVE EncounteredFrom(_, _, _)
\* The distinct non-missing values of the column in order of first appearance.
EncounteredFrom(frame, i, seen) ==
    IF i > Len(frame) THEN <<>>
    ELSE IF frame[i].sensitive = NA \/ frame[i].sensitive \in seen
         THEN EncounteredFrom(frame, i + 1, seen)
         ELSE <<frame[i].sensitive>>
              \o EncounteredFrom(frame, i + 1, seen \cup {frame[i].sensitive})

\* Categories left in order of appearance (no sort).
CategoriesUnsorted(frame) == EncounteredFrom(frame, 1, {})

\* Line 150: astype("category").  The categories are the distinct non-missing
\* values of the column, sorted (pandas sorts the categories of orderable values).
Categories(frame) ==
    SortedSeq({frame[i].sensitive : i \in 1..Len(frame)} \ {NA})

\* Line 153: set_categories rejects a list that names a category twice
\* (ValueError: Categorical categories must be unique).
DuplicateCategories(a) ==
    /\ ~IsNone(a.group_order)
    /\ \E i, j \in 1..Len(a.group_order[1]) :
          i # j /\ a.group_order[1][i] = a.group_order[1][j]

\* Line 152-155: the groups the loop visits, in order.
GroupList(a) ==
    IF IsNone(a.group_order) THEN Categories(Frame(a)) ELSE a.group_order[1]

\* Line 148-149: a label normalised to 0/1 with respect to positive_label.
Binarize(v, positive_label) == IF v = positive_label THEN 1 ELSE 0

\* Line 159, 163-164: the rows of one group, as (yt, yp) pairs.  Values that are
\* missing, or that set_categories dropped, equal no group.
GroupRows(a, grp) ==
    LET frame == Frame(a)
        sel == SelectSeq(frame, LAMBDA r : r.sensitive # NA /\ r.sensitive = grp)
    IN [i \in 1..Len(sel) |->
          [yt |-> Binarize(sel[i].y_true, a.positive_label),
           yp |-> Binarize(sel[i].y_pred, a.positive_label)]]

\* (cond).sum() over the rows of a group.
CountRows(rows, yp, yt) ==
    Cardinality({i \in 1..Len(rows) : rows[i].yp = yp /\ rows[i].yt = yt})

\* The n == 0 test left out.
SkipGroupNever(n) == FALSE

\* Line 161: a group without rows is skipped.
SkipGroup(n) == n = 0

\* TPR with the precision denominator.
TprOfPredicted(tp, fp, tn, fn) == _safe_div(Float(tp), Float(tp + fp))

\* Line 173.
TprOf(tp, fp, tn, fn) == _safe_div(Float(tp), Float(tp + fn))

\* Line 160-188: the metrics of one group.
GroupMetrics(a, grp) ==
    LET rows == GroupRows(a, grp)
        n == Len(rows)
        ypsum == Cardinality({i \in 1..n : rows[i].yp = 1})
        tp == CountRows(rows, 1, 1)
        fp == CountRows(rows, 1, 0)
        tn == CountRows(rows, 0, 0)
        fn == CountRows(rows, 0, 1)
    IN [group |-> grp,
        count |-> n,
        positive_rate |-> _safe_div(Float(ypsum), Float(n)),
        tpr |-> TprOf(tp, fp, tn, fn),
        fpr |-> _safe_div(Float(fp), Float(fp + tn)),
        ppv |-> _safe_div(Float(tp), Float(tp + fp)),
        tnr |-> _safe_div(Float(tn), Float(tn + fp)),
        fnr |-> _safe_div(Float(fn), Float(fn + tp))]

RECURSIVE ByGroupFrom(_, _, _)
\* Line 158-188: the loop over the groups from index i on.
ByGroupFrom(a, groups, i) ==
    IF i > Len(groups) THEN <<>>
    ELSE LET m == GroupMetrics(a, groups[i])
         IN IF SkipGroup(m.count) THEN ByGroupFrom(a, groups, i + 1)
            ELSE <<m>> \o ByGroupFrom(a, groups, i + 1)

ByGroup(a) == ByGroupFrom(a, GroupList(a), 1)

(***************************************************************************)
(* Summary.                                                                *)
(***************************************************************************)
Column(by_group, metric) == [i \in 1..Len(by_group) |-> by_group[i][metric]]

\* span without the empty-list test, the empty span taken as 0.
spanEmptyZero(by_group, metric) ==
    LET vals == Column(by_group, metric)
    IN IF Len(vals) = 0 THEN Float(0)
       ELSE FSub(NanMax(vals), NanMin(vals))

\* span with the operands exchanged.
spanReversed(by_group, metric) ==
    LET vals == Column(by_group, metric)
    IN IF Len(vals) = 0 THEN NaN
       ELSE FSub(NanMin(vals), NanMax(vals))

\* Line 191-195.
span(by_group, metric) ==
    LET vals == Column(by_group, metric)
    IN IF Len(vals) = 0 THEN NaN
       ELSE FSub(NanMax(vals), NanMin(vals))

\* Line 197-203.
di_ratio(by_group) ==
    LET vals == Column(by_group, "positive_rate")
    IN IF Len(vals) = 0 THEN NaN
       ELSE _safe_div(NanMin(vals), NanMax(vals))

\* Line 206.
eod(by_group) == PyMax(span(by_group, "tpr"), span(by_group, "fpr"))

\* Line 208-214.
SummaryMetrics(by_group) ==
    [demographic_parity_difference |-> span(by_group, "positive_rate"),
     disparate_impact_ratio |-> di_ratio(by_group),
     equal_opportunity_difference |-> span(by_group, "tpr"),
     equalized_odds_difference |-> eod(by_group),
     predictive_parity_difference |-> span(by_group, "ppv")]

\* Line 216-220.
Metadata(a, by_group) ==
    [n_samples |-> Len(Frame(a)),
     n_groups |-> Len(by_group),
     positive_label |-> a.positive_label]

\* Line 222.
BiasReport(a) ==
    LET by_group == ByGroup(a)
    IN [by_group |-> by_group,
        summary |-> SummaryMetrics(by_group),
        metadata |-> Metadata(a, by_group)]

\* Every way from_arrays raises ValueError on the modelled inputs.
Raises(a) ==
    \/ MissingPrediction(a)
    \/ (~MissingPrediction(a) /\ LengthMismatch(a))
    \/ (~MissingPrediction(a) /\ DuplicateCategories(a))

(***************************************************************************)
(* The call.                                                               *)
(***************************************************************************)
\* group_order lists of up to two entries: enough to repeat a group, to leave one
\* out, to name one that has no row and to reverse the sorted order.
GroupOrders == Opt(SeqsUpTo(Groups, 2))

PredictionSources ==
    {[y_pred |-> Some(p), y_score |-> None, threshold |-> None] :
        p \in SeqsUpTo(Labels, MaxRows)}
    \cup
    {[y_pred |-> None, y_score |-> s, threshold |-> t] :
        s \in Opt(SeqsUpTo(Scores, MaxRows)), t \in Opt(Thresholds)}

Init ==
    /\ \E src \in PredictionSources :
       \E yt \in SeqsUpTo(Labels, MaxRows) :
       \E sens \in SeqsUpTo(Groups \cup {NA}, MaxRows) :
       \E pl \in Labels :
       \E go \in GroupOrders :
       \E dn \in BOOLEAN :
          args = [y_true |-> yt, y_pred |-> src.y_pred, sensitive |-> sens,
                  y_score |-> src.y_score, threshold |-> src.threshold,
                  positive_label |-> pl, group_order |-> go,
                  dropna_groups |-> dn]
    /\ pc = "call"
    /\ error = ""
    /\ report = None

\* BiasReport.from_arrays(**args): raises ValueError, or returns the report.
from_arrays ==
    /\ pc = "call"
    /\ IF Raises(args)
       THEN /\ pc' = "raised"
            /\ error' = "ValueError"
            /\ report' = None
       ELSE /\ pc' = "returned"
            /\ error' = ""
            /\ report' = Some(BiasReport(args))
    /\ UNCHANGED args

Next == from_arrays

Spec == Init /\ [][Next]_vars

(***************************************************************************)
(* What the claims speak of, stated on the arguments and the report alone. *)
(***************************************************************************)
Returned == pc = "returned"

Raised == pc = "raised"

by_group == report[1].by_group

summary == report[1].summary

metadata == report[1].metadata

RateFields == {"positive_rate", "tpr", "fpr", "ppv", "tnr", "fnr"}

SummaryFields ==
    {"demographic_parity_difference", "disparate_impact_ratio",
     "equal_opportunity_difference", "equalized_odds_difference",
     "predictive_parity_difference"}

\* (a) of the validation: no y_pred and no complete (y_score, threshold) pair.
NoPredictionSource ==
    /\ args.y_pred = None
    /\ (args.y_score = None \/ args.threshold = None)

\* The prediction-or-score sequence the caller passed (only where one was passed).
PassedPredictions ==
    IF args.y_pred # None THEN args.y_pred[1] ELSE args.y_score[1]

\* (b) of the validation: the three sequences are not all of one length.
LengthsDiffer ==
    /\ ~NoPredictionSource
    /\ \/ Len(PassedPredictions) # Len(args.y_true)
       \/ Len(args.sensitive) # Len(args.y_true)

\* group_order names some value twice.
OrderRepeats ==
    /\ args.group_order # None
    /\ Cardinality({args.group_order[1][i] : i \in 1..Len(args.group_order[1])})
          < Len(args.group_order[1])

\* The input rows that are counted: all of them, or those with a group value.
KeptRows ==
    {i \in 1..Len(args.y_true) : ~(args.dropna_groups /\ args.sensitive[i] = NA)}

RowsOf(g) == {i \in KeptRows : args.sensitive[i] = g}

\* The distinct group values with at least one counted row.
PresentGroups == {args.sensitive[i] : i \in KeptRows} \ {NA}

TruthPositive(i) == args.y_true[i] = args.positive_label

\* The prediction of row i as from_arrays holds it (a label, or 0/1 from a score).
HeldPrediction(i) ==
    IF args.y_pred # None THEN args.y_pred[1][i]
    ELSE IF args.y_score[1][i] >= args.threshold[1] THEN 1 ELSE 0

PredictedPositive(i) == HeldPrediction(i) = args.positive_label

\* x is the float n / d, not-a-number when d = 0.
IsRatio(x, n, d) ==
    IF d = 0 THEN IsNaN(x) ELSE ~IsNaN(x) /\ x[1] * d = n * x[2]

InUnitOrNaN(x) == IsNaN(x) \/ (FLe(Float(0), x) /\ FLe(x, Float(1)))

\* x is max - min of the defined values of the metric over the output groups,
\* not-a-number if none is defined.
IsSpanOf(x, metric) ==
    LET K == {k \in 1..Len(by_group) : ~IsNaN(by_group[k][metric])}
    IN IF K = {} THEN IsNaN(x)
       ELSE \E hi, lo \in K :
              /\ \A k \in K : /\ FLe(by_group[k][metric], by_group[hi][metric])
                              /\ FLe(by_group[lo][metric], by_group[k][metric])
              /\ FEq(x, FSub(by_group[hi][metric], by_group[lo][metric]))

\* Position of group value g in group_order.
OrderIndex(g) ==
    CHOOSE i \in 1..Len(args.group_order[1]) : args.group_order[1][i] = g

\* The first counted row that carries group value g.
FirstRow(g) == CHOOSE i \in RowsOf(g) : \A j \in RowsOf(g) : i <= j

RECURSIVE SumCounts(_)
SumCounts(k) == IF k = 0 THEN 0 ELSE by_group[k].count + SumCounts(k - 1)

C2_RatesAreConfusionRatios ==
    Returned =>
        \A k \in 1..Len(by_group) :
            LET m == by_group[k]
                R == RowsOf(m.group)
                TP == Cardinality({i \in R : PredictedPositive(i) /\ TruthPositive(i)})
                FP == Cardinality({i \in R : PredictedPositive(i) /\ ~TruthPositive(i)})
                TN == Cardinality({i \in R : ~PredictedPositive(i) /\ ~TruthPositive(i)})
                FN == Cardinality({i \in R : ~PredictedPositive(i) /\ TruthPositive(i)})
            IN /\ m.count = Cardinality(R)
               /\ IsRatio(m.positive_rate, TP + FP, m.count)
               /\ IsRatio(m.tpr, TP, TP + FN)
               /\ IsRatio(m.fpr, FP, FP + TN)
               /\ IsRatio(m.ppv, TP, TP + FP)
               /\ IsRatio(m.tnr, TN, TN + FP)
               /\ IsRatio(m.fnr, FN, FN + TP)

\* A group whose truth values are all negative and that has a predicted positive:
\* tpr is not-a-number, selection_rate an ordinary positive fraction.
C2_Witness ==
    /\ Returned
    /\ \E k \in 1..Len(by_group) :
          /\ IsNaN(by_group[k].tpr)
          /\ FLt(Float(0), by_group[k].positive_rate)
          /\ \A i \in RowsOf(by_group[k].group) : ~TruthPositive(i)

\* C3: every rate of every output group lies in [0,1] or is not-a-number, and
\* every output group has count > 0.
C3_RatesInUnitIntervalCountPositive ==
    Returned =>
        \A k \in 1..Len(by_group) :
            /\ by_group[k].count > 0
            /\ \A f \in RateFields : InUnitOrNaN(by_group[k][f])

\* A report where group_order named a group without rows (skipped), and an
\* output group has an undefined rate beside a defined one.
C3_Witness ==
    /\ Returned
    /\ args.group_order # None
    /\ \E j \in 1..Len(args.group_order[1]) : RowsOf(args.group_order[1][j]) = {}
    /\ \E k \in 1..Len(by_group) :
          /\ \E f \in RateFields : IsNaN(by_group[k][f])
          /\ \E f \in RateFields : FEq(by_group[k][f], Float(1))

\* C4: the number of by_group entries, which is also n_groups, is the number of
\* distinct group values with at least one counted row.
C4_OneEntryPerPresentGroup ==
    Returned =>
        /\ Len(by_group) = Cardinality(PresentGroups)
        /\ metadata.n_groups = Cardinality(PresentGroups)

\* C5 (as stated): all five summary values are not-a-number whenever the result
\* holds zero or exactly one group.
C5_SummaryNaNUpToOneGroup ==
    (Returned /\ Len(by_group) <= 1) =>
        \A f \in SummaryFields : IsNaN(summary[f])

\* C5 (amended): all five summary values are not-a-number whenever the result
\* holds zero groups; with exactly one group demographic_parity_difference is 0.
C5_SummaryNaNWithoutGroups ==
    /\ (Returned /\ Len(by_group) = 0) =>
           \A f \in SummaryFields : IsNaN(summary[f])
    /\ (Returned /\ Len(by_group) = 1) =>
           FEq(summary.demographic_parity_difference, Float(0))

\* A report without groups from an input that has rows.
C5_Witness ==
    /\ Returned
    /\ Len(by_group) = 0
    /\ Len(args.y_true) > 0

\* The selection-rate part of C6 on a report that has groups.
SelectionSpread ==
    /\ IsSpanOf(summary.demographic_parity_difference, "positive_rate")
    /\ FLe(Float(0), summary.demographic_parity_difference)
    /\ \E hi, lo \in 1..Len(by_group) :
          /\ \A k \in 1..Len(by_group) :
                /\ FLe(by_group[k].positive_rate, by_group[hi].positive_rate)
                /\ FLe(by_group[lo].positive_rate, by_group[k].positive_rate)
          /\ by_group[hi].positive_rate[1] # 0 =>
                /\ IsRatio(summary.disparate_impact_ratio,
                           by_group[lo].positive_rate[1] * by_group[hi].positive_rate[2],
                           by_group[lo].positive_rate[2] * by_group[hi].positive_rate[1])
                /\ FLe(Float(0), summary.disparate_impact_ratio)
                /\ FLe(summary.disparate_impact_ratio, Float(1))

\* C6 (as stated): for every valid input, also one that yields no group,
\* demographic_parity_difference is max - min of the selection rates and is >= 0,
\* and disparate_impact_ratio = min/max lies in [0,1] when the maximum is nonzero.
C6_ParityDifferenceNonNegativeAlways ==
    Returned =>
        /\ FLe(Float(0), summary.demographic_parity_difference)
        /\ Len(by_group) > 0 => SelectionSpread

\* C6 (amended): the same for every valid input that yields at least one group.
C6_ParityDifferenceNonNegativeWithGroups ==
    (Returned /\ Len(by_group) > 0) => SelectionSpread

\* Two groups with different selection rates and a defined impact ratio.
C6_Witness ==
    /\ Returned
    /\ Len(by_group) >= 2
    /\ FLt(Float(0), summary.demographic_parity_difference)
    /\ FLt(summary.disparate_impact_ratio, Float(1))

\* max - min of the defined values of the metric over the output groups,
\* not-a-number if no group defines it.
SpanValue(metric) ==
    LET K == {k \in 1..Len(by_group) : ~IsNaN(by_group[k][metric])}
    IN IF K = {} THEN NaN
       ELSE LET hi == CHOOSE h \in K :
                        \A k \in K : FLe(by_group[k][metric], by_group[h][metric])
                lo == CHOOSE l \in K :
                        \A k \in K : FLe(by_group[l][metric], by_group[k][metric])
            IN FSub(by_group[hi][metric], by_group[lo][metric])

\* C7: with at least one group, equalized_odds_difference is the larger of the
\* TPR span (equal_opportunity_difference) and the FPR span, each max - min over
\* the groups where the rate is defined: not below either span that is finite,
\* and equal to one of the two.
C7_EqualizedOddsIsWorseSpan ==
    (Returned /\ Len(by_group) > 0) =>
        LET st == SpanValue("tpr")
            sf == SpanValue("fpr")
            e == summary.equalized_odds_difference
        IN /\ FSame(summary.equal_opportunity_difference, st)
           /\ ~IsNaN(st) => FLe(st, e)
           /\ ~IsNaN(sf) => FLe(sf, e)
           /\ FSame(e, st) \/ FSame(e, sf)

FollowsGroupOrder ==
    args.group_order # None =>
        \A j, k \in 1..Len(by_group) :
            j < k => OrderIndex(by_group[j].group) < OrderIndex(by_group[k].group)

\* C9 (as stated): by_group follows group_order when it is supplied, and
\* otherwise the order in which the group values first occur in the input.
C9_OrderGivenOrEncountered ==
    Returned =>
        /\ FollowsGroupOrder
        /\ args.group_order = None =>
              \A j, k \in 1..Len(by_group) :
                  j < k => FirstRow(by_group[j].group) < FirstRow(by_group[k].group)

\* C9 (amended): by_group follows group_order when it is supplied, and
\* otherwise the ascending sorted order of the group values.
C9_OrderGivenOrSorted ==
    Returned =>
        /\ FollowsGroupOrder
        /\ args.group_order = None =>
              \A j, k \in 1..Len(by_group) :
                  j < k => by_group[j].group < by_group[k].group

\* No group_order, two output groups, and the larger group value occurs first.
C9_Witness ==
    /\ Returned
    /\ args.group_order = None
    /\ Len(by_group) = 2
    /\ FirstRow(by_group[2].group) < FirstRow(by_group[1].group)

\* C10: the counts of the output groups add up to n_samples, the number of rows
\* left after missing-group rows are dropped when dropna_groups is set.
C10_GroupsPartitionSamples ==
    Returned =>
        /\ metadata.n_samples = Cardinality(KeptRows)
        /\ SumCounts(Len(by_group)) = metadata.n_samples

====
